---- MODULE Spec2Model ----
(***************************************************************************)
(* Model of src/tf/models.py: the block-wise weight initialiser            *)
(* fixed_initializer, the fused linear map linear, the RNN cells built on  *)
(* it and the dispatch helper RNN.                                         *)
(*                                                                         *)
(* The program builds a graph: what it changes is the framework's variable *)
(* store (the registered parameters, by name) and numpy's global random    *)
(* generator.  Tensors are modelled by their static shape and, where it is *)
(* representable over the integers, their value.                           *)
(***************************************************************************)
EXTENDS Integers, Sequences, FiniteSets, TLC

VARIABLES
    store,   \* registered parameters: full name (scope path) -> value
    users,   \* history: full name -> the (cell, linear map) pairs that obtained it
    rng,     \* position of numpy's global random generator
    cell,    \* the sizes the cells were constructed with
    calls,   \* number of calls made so far
    last     \* outcome of the last call

vars == <<store, users, rng, cell, calls, last>>

(***************************************************************************)
(* Bounds of the model.                                                    *)
(***************************************************************************)
MaxDim == 2        \* feature dimensions range over 1..MaxDim
MaxBlocks == 2     \* longest n_in_list handed to fixed_initializer directly
RngPeriod == 3     \* period of the modelled random generator
MaxCalls == 2      \* calls made in one behaviour
MaxSeq == 2        \* longest sequence handed to RNN

Dims == 1..MaxDim

(***************************************************************************)
(* Small helpers on sequences and matrices (a matrix is a sequence of      *)
(* rows, a row a sequence of integers).                                    *)
(***************************************************************************)
RECURSIVE SumSeq(_)
SumSeq(s) == IF s = <<>> THEN 0 ELSE Head(s) + SumSeq(Tail(s))

SeqsUpTo(S, n) == UNION {[1..k -> S] : k \in 0..n}

Identity(n) == [r \in 1..n |-> [c \in 1..n |-> IF r = c THEN 1 ELSE 0]]

(***************************************************************************)
(* np.random.uniform(low=-scale, high=scale) with scale = sqrt(6/(n_in +   *)
(* n_out)).  The generator is a global sequence; the model keeps its       *)
(* position and represents the integer samples of the interval:            *)
(* |v| <= sqrt(6/(n_in+n_out))  iff  v*v*(n_in+n_out) <= 6.                *)
(***************************************************************************)
ScaleNumerator == 6

MaxSample(n_in, n_out) ==
    CHOOSE m \in 0..ScaleNumerator :
        /\ m * m * (n_in + n_out) <= ScaleNumerator
        /\ (m + 1) * (m + 1) * (n_in + n_out) > ScaleNumerator

Draw(k, n_in, n_out) ==
    LET m == MaxSample(n_in, n_out)
    IN  (k % (2 * m + 1)) - m

Uniform(r, n_in, n_out) ==
    [i \in 1..n_in |->
        [j \in 1..n_out |->
            Draw((r + (i - 1) * n_out + (j - 1)) % RngPeriod, n_in, n_out)]]

(***************************************************************************)
(* fixed_initializer (lines 48-60).                                        *)
(***************************************************************************)
Uninit == -99      \* an entry of np.empty that no block has written

Empty(rows, cols) == [r \in 1..rows |-> [c \in 1..cols |-> Uninit]]

\* numpy's rule for `target[...] = values`: each dimension of values equals
\* the target's or is 1.
Broadcastable(vr, vc, tr, tc) == (vr = tr \/ vr = 1) /\ (vc = tc \/ vc = 1)

BroadcastTo(values, vr, vc, tr, tc) ==
    [r \in 1..tr |->
        [c \in 1..tc |->
            values[IF vr = 1 THEN 1 ELSE r][IF vc = 1 THEN 1 ELSE c]]]

\* matrix[lo:(lo + n), :] = block
SetRows(matrix, lo, n, block) ==
    [r \in 1..Len(matrix) |->
        IF r > lo /\ r <= lo + n THEN block[r - lo] ELSE matrix[r]]

\* The values of block i (0-based, as enumerate gives it) and their shape.
BlockValues(i, n_in, n_out, identity, r) ==
    IF i = identity
    THEN [val |-> Identity(n_in), rows |-> n_in, cols |-> n_in, drawn |-> 0]
    ELSE [val |-> Uniform(r, n_in, n_out), rows |-> n_in, cols |-> n_out,
          drawn |-> n_in * n_out]

\* Mutant: the marker is not advanced.
NextRowMarkerStuck(row_marker, n_in) == row_marker

NextRowMarker(row_marker, n_in) == row_marker + n_in

\* Lines 58-59 for a block of n_in rows whose values are b; st is the loop's
\* state.  The assignment raises when b does not broadcast to the slice.
WriteBlock(st, n_in, n_out, b) ==
    IF ~Broadcastable(b.rows, b.cols, n_in, n_out)
    THEN [st EXCEPT !.ok = FALSE, !.err = "ValueError",
                    !.rng = (st.rng + b.drawn) % RngPeriod]
    ELSE [st EXCEPT
            !.matrix = SetRows(st.matrix, st.row_marker, n_in,
                               BroadcastTo(b.val, b.rows, b.cols, n_in, n_out)),
            !.slices = Append(st.slices,
                              <<st.row_marker, st.row_marker + n_in>>),
            !.row_marker = NextRowMarker(st.row_marker, n_in),
            !.rng = (st.rng + b.drawn) % RngPeriod]

\* The loop of lines 50-59 from block i on.
RECURSIVE FILoop(_, _, _, _, _)
FILoop(n_in_list, n_out, identity, i, st) ==
    IF ~st.ok \/ i >= Len(n_in_list) THEN st
    ELSE FILoop(n_in_list, n_out, identity, i + 1,
                WriteBlock(st, n_in_list[i + 1], n_out,
                           BlockValues(i, n_in_list[i + 1], n_out, identity,
                                       st.rng)))

fixed_initializer(n_in_list, n_out, identity, r) ==
    FILoop(n_in_list, n_out, identity, 0,
           [ok |-> TRUE, err |-> "", matrix |-> Empty(SumSeq(n_in_list), n_out),
            row_marker |-> 0, slices |-> <<>>, rng |-> r])

(***************************************************************************)
(* Tensors.  A tensor of the graph has a static shape, a sequence of       *)
(* dimensions in which None stands for an unknown one.  Its value is kept  *)
(* as one row of integers, the same for every row of the batch, or Opaque  *)
(* when the value is not an integer row (the result of tanh away from 0).  *)
(***************************************************************************)
None == -1
Opaque == <<>>

Tensor(shape, val) == [shape |-> shape, val |-> val]

NoTensor == Tensor(<<>>, Opaque)

Zeros(k) == [j \in 1..k |-> 0]

(***************************************************************************)
(* The framework operations linear uses, by their shape rules.             *)
(***************************************************************************)
\* Two static dimensions that may be the same one.
Compatible(d1, d2) == d1 = None \/ d2 = None \/ d1 = d2

Merge(d1, d2) == IF d1 = None THEN d2 ELSE d1

\* tf.concat(1, args) of rank-2 tensors with known second dimensions: the
\* batch dimensions must agree.
ConcatTwo(t, a) ==
    Tensor(<<Merge(t.shape[1], a.shape[1]), t.shape[2] + a.shape[2]>>,
           IF t.val = Opaque \/ a.val = Opaque THEN Opaque ELSE t.val \o a.val)

RECURSIVE ConcatFrom(_, _, _)
ConcatFrom(args, i, acc) ==
    IF ~acc.ok \/ i > Len(args) THEN acc
    ELSE IF ~Compatible(acc.t.shape[1], args[i].shape[1])
    THEN [ok |-> FALSE, t |-> NoTensor]
    ELSE ConcatFrom(args, i + 1, [ok |-> TRUE, t |-> ConcatTwo(acc.t, args[i])])

Concat(args) == ConcatFrom(args, 2, [ok |-> TRUE, t |-> args[1]])

RECURSIVE Dot(_, _, _, _)
Dot(row, matrix, c, r) ==
    IF r > Len(row) THEN 0 ELSE row[r] * matrix[r][c] + Dot(row, matrix, c, r + 1)

\* tf.matmul(a, matrix): the inner dimensions must agree.
MatMul(a, matrix) ==
    IF a.shape[2] # Len(matrix)
    THEN [ok |-> FALSE, t |-> NoTensor]
    ELSE [ok |-> TRUE,
          t |-> Tensor(<<a.shape[1], Len(matrix[1])>>,
                       IF a.val = Opaque THEN Opaque
                       ELSE [c \in 1..Len(matrix[1]) |-> Dot(a.val, matrix, c, 1)])]

\* res + bias_term, the bias broadcast over the batch.
AddBias(res, b) ==
    IF res.shape[2] # Len(b)
    THEN [ok |-> FALSE, t |-> NoTensor]
    ELSE [ok |-> TRUE,
          t |-> Tensor(res.shape,
                       IF res.val = Opaque THEN Opaque
                       ELSE [c \in 1..Len(b) |-> res.val[c] + b[c]])]

Relu(t) ==
    Tensor(t.shape,
           IF t.val = Opaque THEN Opaque
           ELSE [c \in 1..Len(t.val) |-> IF t.val[c] > 0 THEN t.val[c] ELSE 0])

\* tanh is exact over the integers only at 0.
Tanh(t) ==
    Tensor(t.shape,
           IF t.val # Opaque /\ t.val = Zeros(Len(t.val)) THEN t.val ELSE Opaque)

(***************************************************************************)
(* The variable store: vs.variable_scope and vs.get_variable.  A name is   *)
(* the path of scope names followed by the variable's own name.  A scope   *)
(* that does not reuse creates, and fails on a name that exists; a scope   *)
(* that reuses returns the variable, and fails on a name that does not     *)
(* exist.                                                                  *)
(***************************************************************************)
EmptyStore == <<>>

Registered(st) == DOMAIN st

Put(st, name, v) == [n \in (DOMAIN st) \cup {name} |-> IF n = name THEN v ELSE st[n]]

NotFound(st) == [ok |-> FALSE, var |-> <<>>, store |-> st]

\* Mutant: a scope that does not reuse overwrites a variable that exists.
GetVariableOverwrite(st, name, reuse, len, initial) ==
    IF reuse /\ name \in DOMAIN st
    THEN [ok |-> TRUE, var |-> st[name], store |-> st]
    ELSE IF reuse THEN NotFound(st)
    ELSE [ok |-> TRUE, var |-> initial, store |-> Put(st, name, initial)]

\* len: the length asked for (None when get_variable is given no shape); a
\* variable found is checked against it.
GetVariable(st, name, reuse, len, initial) ==
    IF name \in DOMAIN st
    THEN IF ~reuse THEN NotFound(st)
         ELSE IF len # None /\ Len(st[name]) # len THEN NotFound(st)
         ELSE [ok |-> TRUE, var |-> st[name], store |-> st]
    ELSE IF reuse THEN NotFound(st)
         ELSE [ok |-> TRUE, var |-> initial, store |-> Put(st, name, initial)]

(***************************************************************************)
(* linear (lines 82-111), stage by stage: each operator below is the rest  *)
(* of the function from the lines it names, given what the lines before    *)
(* it computed.                                                            *)
(***************************************************************************)
\* Mutant: the rank test lets a tensor of rank 3 through.
RECURSIVE CheckShapesLax(_, _, _)
CheckShapesLax(args, i, n_in_list) ==
    IF i > Len(args) THEN [ok |-> TRUE, n_in_list |-> n_in_list, at |-> 0]
    ELSE IF Len(args[i].shape) < 2
    THEN [ok |-> FALSE, n_in_list |-> n_in_list, at |-> i]
    ELSE IF args[i].shape[2] = None \/ args[i].shape[2] = 0
    THEN [ok |-> FALSE, n_in_list |-> n_in_list, at |-> i]
    ELSE CheckShapesLax(args, i + 1, Append(n_in_list, args[i].shape[2]))

\* The loop of lines 90-97 from argument i on: the first offending shape
\* raises.
RECURSIVE CheckShapes(_, _, _)
CheckShapes(args, i, n_in_list) ==
    IF i > Len(args) THEN [ok |-> TRUE, n_in_list |-> n_in_list, at |-> 0]
    ELSE IF Len(args[i].shape) # 2
    THEN [ok |-> FALSE, n_in_list |-> n_in_list, at |-> i]
    ELSE IF args[i].shape[2] = None \/ args[i].shape[2] = 0
    THEN [ok |-> FALSE, n_in_list |-> n_in_list, at |-> i]
    ELSE CheckShapes(args, i + 1, Append(n_in_list, args[i].shape[2]))

LinearScope(scope) == IF scope = <<>> THEN <<"Linear">> ELSE scope

LinearFail(stage, err, st, r, obtained) ==
    [ok |-> FALSE, err |-> err, stage |-> stage, res |-> NoTensor,
     store |-> st, rng |-> r, obtained |-> obtained]

LinearReturn(res, st, r, obtained) ==
    [ok |-> TRUE, err |-> "", stage |-> "return", res |-> res,
     store |-> st, rng |-> r, obtained |-> obtained]

\* Line 111, the bias b obtained.
LinearSum(path, r, mm, b, sum) ==
    IF ~sum.ok
    THEN LinearFail("add", "ValueError", b.store, r,
                    {Append(path, "Matrix"), Append(path, "Bias")})
    ELSE LinearReturn(sum.t, b.store, r,
                      {Append(path, "Matrix"), Append(path, "Bias")})

\* Lines 108-111, the product mm computed.
LinearBias(path, st, r, mm, b) ==
    IF ~b.ok
    THEN LinearFail("Bias", "ValueError", st, r, {Append(path, "Matrix")})
    ELSE LinearSum(path, r, mm, b, AddBias(mm.t, b.var))

\* Mutant: the bias is obtained and added whatever the flag.
LinearProductAlwaysBias(output_size, bias, bias_start, path, reuse, st, r, mm) ==
    IF ~mm.ok
    THEN LinearFail("matmul", "ValueError", st, r, {Append(path, "Matrix")})
    ELSE LinearBias(path, st, r, mm,
                    GetVariable(st, Append(path, "Bias"), reuse, output_size,
                                [j \in 1..output_size |-> bias_start]))

\* Lines 106-111.
LinearProduct(output_size, bias, bias_start, path, reuse, st, r, mm) ==
    IF ~mm.ok
    THEN LinearFail("matmul", "ValueError", st, r, {Append(path, "Matrix")})
    ELSE IF ~bias
    THEN LinearReturn(mm.t, st, r, {Append(path, "Matrix")})
    ELSE LinearBias(path, st, r, mm,
                    GetVariable(st, Append(path, "Bias"), reuse, output_size,
                                [j \in 1..output_size |-> bias_start]))

\* Lines 102-105: cat is the single argument or the concatenation.
LinearMatMul(output_size, bias, bias_start, path, reuse, m, r, cat) ==
    IF ~cat.ok
    THEN LinearFail("concat", "ValueError", m.store, r, {Append(path, "Matrix")})
    ELSE LinearProduct(output_size, bias, bias_start, path, reuse, m.store, r,
                       MatMul(cat.t, m.var))

\* Lines 102-111, "Matrix" obtained as m.
LinearCompute(args, output_size, bias, bias_start, path, reuse, st, r, m) ==
    IF ~m.ok THEN LinearFail("Matrix", "ValueError", st, r, {})
    ELSE LinearMatMul(output_size, bias, bias_start, path, reuse, m, r,
                      IF Len(args) = 1 THEN [ok |-> TRUE, t |-> args[1]]
                      ELSE Concat(args))

\* Mutant: "Matrix" is registered before the initial matrix is complete.
LinearMatrixEager(args, output_size, bias, bias_start, path, reuse, st, init) ==
    IF ~init.ok
    THEN LinearFail("initializer", "ValueError",
                    GetVariable(st, Append(path, "Matrix"), reuse, None,
                                init.matrix).store,
                    init.rng, {})
    ELSE LinearCompute(args, output_size, bias, bias_start, path, reuse, st,
                       init.rng,
                       GetVariable(st, Append(path, "Matrix"), reuse, None,
                                   init.matrix))

\* Lines 100-111: the initial matrix is built before get_variable is called.
LinearMatrix(args, output_size, bias, bias_start, path, reuse, st, init) ==
    IF ~init.ok THEN LinearFail("initializer", "ValueError", st, init.rng, {})
    ELSE LinearCompute(args, output_size, bias, bias_start, path, reuse, st,
                       init.rng,
                       GetVariable(st, Append(path, "Matrix"), reuse, None,
                                   init.matrix))

\* Lines 99-111, the shapes checked.
LinearChecked(args, output_size, bias, bias_start, path, identity, reuse, st, r, chk) ==
    IF ~chk.ok THEN LinearFail("validate", "ValueError", st, r, {})
    ELSE LinearMatrix(args, output_size, bias, bias_start, path, reuse, st,
                      fixed_initializer(chk.n_in_list, output_size, identity, r))

\* ambient: the path of the enclosing variable scope; reuse: whether that
\* scope reuses variables.  args is the list of line 84.
linear(args, output_size, bias, bias_start, scope, identity, ambient, reuse, st, r) ==
    IF Len(args) = 0 THEN LinearFail("assert", "AssertionError", st, r, {})
    ELSE LinearChecked(args, output_size, bias, bias_start,
                       ambient \o LinearScope(scope), identity, reuse, st, r,
                       CheckShapes(args, 1, <<>>))

(***************************************************************************)
(* The cells (lines 130-212).  A cell holds the three sizes its            *)
(* constructor was given; a step runs two linear maps under the cell's     *)
(* scope.                                                                  *)
(***************************************************************************)
steph_RNNCell(input_size, state_size, output_size) ==
    [input_size |-> input_size, state_size |-> state_size,
     output_size |-> output_size]

NoCell == steph_RNNCell(0, 0, 0)

tanhRNNScope == <<"tanhRNN">>
IRNNScope == <<"IRNN">>
TransitionScope == <<"Linear", "Transition">>

\* Mutant: the output map runs under the transition map's scope.
OutputScopeShared == <<"Linear", "Transition">>

OutputScope == <<"Linear", "Output">>
IRNNIdentity == 1

\* What a step keeps of one of its linear calls.
NoLinear ==
    [ran |-> FALSE, ok |-> FALSE, err |-> "", stage |-> "", obtained |-> {},
     created |-> {}, had |-> {}]

Summary(path, before, out) ==
    [ran |-> TRUE, ok |-> out.ok, err |-> out.err, stage |-> out.stage,
     obtained |-> out.obtained,
     created |-> Registered(out.store) \ Registered(before),
     had |-> {Append(path, "Matrix"), Append(path, "Bias")} \cap Registered(before)]

Note(us, names, tag) ==
    [n \in (DOMAIN us) \cup names |->
        (IF n \in DOMAIN us THEN us[n] ELSE {})
            \cup (IF n \in names THEN {tag} ELSE {})]

\* The step ends in the transition call t, which raised.
StepFailed(kind, path, st, us, t) ==
    [ok |-> FALSE, err |-> t.err, output |-> NoTensor, new_state |-> NoTensor,
     store |-> t.store, rng |-> t.rng,
     users |-> Note(us, t.obtained, <<kind, "Transition">>),
     trans |-> Summary(path \o TransitionScope, st, t), outp |-> NoLinear]

\* The step ends after the output call o.
StepDone(kind, path, st, us, t, new_state, o) ==
    [ok |-> o.ok, err |-> o.err, output |-> o.res,
     new_state |-> IF o.ok THEN new_state ELSE NoTensor,
     store |-> o.store, rng |-> o.rng,
     users |-> Note(Note(us, t.obtained, <<kind, "Transition">>),
                    o.obtained, <<kind, "Output">>),
     trans |-> Summary(path \o TransitionScope, st, t),
     outp |-> Summary(path \o OutputScope, t.store, o)]

\* Lines 173-174 and 188-189: the output map of the new state.
StepOutput(kind, c, path, reuse, st, us, t, new_state) ==
    StepDone(kind, path, st, us, t, new_state,
             linear(<<new_state>>, c.output_size, TRUE, 0, OutputScope, -1,
                    path, reuse, t.store, t.rng))

tanhRNNStep(c, path, reuse, st, us, t) ==
    IF ~t.ok THEN StepFailed("tanhRNN", path, st, us, t)
    ELSE StepOutput("tanhRNN", c, path, reuse, st, us, t, Tanh(t.res))

tanhRNNCell(c, inputs, state, ambient, reuse, st, r, us) ==
    tanhRNNStep(c, ambient \o tanhRNNScope, reuse, st, us,
                linear(<<inputs, state>>, c.state_size, TRUE, 0,
                       TransitionScope, -1, ambient \o tanhRNNScope, reuse,
                       st, r))

IRNNStep(c, path, reuse, st, us, t) ==
    IF ~t.ok THEN StepFailed("IRNN", path, st, us, t)
    ELSE StepOutput("IRNN", c, path, reuse, st, us, t, Relu(t.res))

\* Mutant: the identity index names the input block.
IRNNCellIdentityFirst(c, inputs, state, ambient, reuse, st, r, us) ==
    IRNNStep(c, ambient \o IRNNScope, reuse, st, us,
             linear(<<inputs, state>>, c.state_size, TRUE, 0,
                    TransitionScope, IRNNIdentity - 1, ambient \o IRNNScope,
                    reuse, st, r))

IRNNCell(c, inputs, state, ambient, reuse, st, r, us) ==
    IRNNStep(c, ambient \o IRNNScope, reuse, st, us,
             linear(<<inputs, state>>, c.state_size, TRUE, 0,
                    TransitionScope, IRNNIdentity, ambient \o IRNNScope, reuse,
                    st, r))

\* Mutant: an unimplemented cell steps as the tanh cell does.
StubCellFallsBack(c, inputs, state, ambient, reuse, st, r, us) ==
    tanhRNNCell(c, inputs, state, ambient, reuse, st, r, us)

\* LSTMCell, complex_RNNCell and uRNN: the step raises.
StubCell(c, inputs, state, ambient, reuse, st, r, us) ==
    [ok |-> FALSE, err |-> "NotImplementedError", output |-> NoTensor,
     new_state |-> NoTensor, store |-> st, rng |-> r, users |-> us,
     trans |-> NoLinear, outp |-> NoLinear]

(***************************************************************************)
(* RNN (lines 113-126) and the framework's driver rnn.rnn it hands the     *)
(* cell to: the driver opens the scope "RNN" and steps the cell once per   *)
(* input, switching the scope to reuse after the first.                    *)
(***************************************************************************)
RNNScope == <<"RNN">>

CellStep(kind, c, inputs, state, ambient, reuse, st, r, us) ==
    IF kind = "tanhRNN"
    THEN tanhRNNCell(c, inputs, state, ambient, reuse, st, r, us)
    ELSE IRNNCell(c, inputs, state, ambient, reuse, st, r, us)

\* cell.zero_state(batch_size, dtype) with a batch size known only when the
\* graph runs.
ZeroState(c) == Tensor(<<None, c.state_size>>, Zeros(c.state_size))

RNNResult(ok, err, stage, steps, step, state, created) ==
    [ok |-> ok, err |-> err, stage |-> stage, steps |-> steps,
     store |-> step.store, rng |-> step.rng, users |-> step.users,
     state |-> state, created |-> created]

\* The driver's loop from input time on; prev holds the store, generator and
\* users as the steps so far left them.
RECURSIVE RnnFold(_, _, _, _, _, _, _, _)
RECURSIVE RnnStep(_, _, _, _, _, _, _, _)
RnnFold(kind, c, inputs, time, state, reuse, prev, created) ==
    IF time >= Len(inputs)
    THEN RNNResult(TRUE, "", "return", time, prev, state, created)
    ELSE RnnStep(kind, c, inputs, time, reuse, prev, created,
                 CellStep(kind, c, inputs[time + 1], state, RNNScope,
                          reuse \/ time > 0, prev.store, prev.rng, prev.users))

RnnStep(kind, c, inputs, time, reuse, prev, created, step) ==
    IF ~step.ok
    THEN RNNResult(FALSE, step.err, "step", time + 1, step, NoTensor,
                   created \cup (Registered(step.store) \ Registered(prev.store)))
    ELSE RnnFold(kind, c, inputs, time + 1, step.new_state, reuse, step,
                 created \cup (Registered(step.store) \ Registered(prev.store)))

RNNFail(err, stage, prev) ==
    RNNResult(FALSE, err, stage, 0, prev, NoTensor, {})

\* Lines 123-124: x, of shape (batch, time, features), split along time.
SplitInputs(x, sequence_length) ==
    [t \in 1..sequence_length |-> Tensor(<<x.shape[1], x.shape[3]>>, x.val)]

\* Mutant: an unrecognised cell type falls back to the tanh cell.
RNNDefaultsToTanh(cell_type, x, input_size, state_size, output_size, sequence_length, reuse, prev) ==
    IF x.shape[2] % sequence_length # 0
    THEN RNNFail("ValueError", "split", prev)
    ELSE IF x.shape[2] \div sequence_length # 1
    THEN RNNFail("ValueError", "squeeze", prev)
    ELSE RnnFold(IF cell_type = "IRNN" THEN "IRNN" ELSE "tanhRNN",
                 steph_RNNCell(input_size, state_size, output_size),
                 SplitInputs(x, sequence_length), 0,
                 ZeroState(steph_RNNCell(input_size, state_size, output_size)),
                 reuse, prev, {})

\* reuse is the caller's scope; prev the store, generator and users.
RNN(cell_type, x, input_size, state_size, output_size, sequence_length, reuse, prev) ==
    IF cell_type \notin {"tanhRNN", "IRNN"}
    THEN RNNFail("NotImplementedError", "dispatch", prev)
    ELSE IF x.shape[2] % sequence_length # 0
    THEN RNNFail("ValueError", "split", prev)
    ELSE IF x.shape[2] \div sequence_length # 1
    THEN RNNFail("ValueError", "squeeze", prev)
    ELSE RnnFold(cell_type, steph_RNNCell(input_size, state_size, output_size),
                 SplitInputs(x, sequence_length), 0,
                 ZeroState(steph_RNNCell(input_size, state_size, output_size)),
                 reuse, prev, {})

(***************************************************************************)
(* The outcome of a call, as the state keeps it.                           *)
(***************************************************************************)
NoMatrix == <<>>

NoCall ==
    [op |-> "none", ok |-> TRUE, err |-> "", stage |-> "",
     n_in_list |-> <<>>, n_out |-> 0, identity |-> -1,
     matrix |-> NoMatrix, row_marker |-> 0, slices |-> <<>>,
     args |-> <<>>, bias |-> FALSE, bias_start |-> 0, path |-> <<>>,
     reuse |-> FALSE, created |-> {}, obtained |-> {}, res |-> NoTensor,
     new_state |-> NoTensor, trans |-> NoLinear, outp |-> NoLinear,
     cell_type |-> "", steps |-> 0]

(***************************************************************************)
(* Specification of fixed_initializer alone: the generator starts at any   *)
(* position and the function is applied to every bounded input.            *)
(***************************************************************************)
FIInit ==
    /\ store = EmptyStore
    /\ users = <<>>
    /\ rng \in 0..(RngPeriod - 1)
    /\ cell = NoCell
    /\ calls = 0
    /\ last = NoCall

FixedInitializerCall(n_in_list, n_out, identity) ==
    /\ calls < MaxCalls
    /\ \E res \in {fixed_initializer(n_in_list, n_out, identity, rng)} :
        /\ calls' = calls + 1
        /\ last' = [NoCall EXCEPT
                      !.op = "fixed_initializer", !.ok = res.ok, !.err = res.err,
                      !.n_in_list = n_in_list, !.n_out = n_out,
                      !.identity = identity,
                      !.matrix = IF res.ok THEN res.matrix ELSE NoMatrix,
                      !.row_marker = res.row_marker, !.slices = res.slices]
        /\ rng' = res.rng
        /\ UNCHANGED <<store, users, cell>>

FINext ==
    \E n_in_list \in SeqsUpTo(Dims, MaxBlocks), n_out \in Dims,
       identity \in -1..MaxBlocks :
        FixedInitializerCall(n_in_list, n_out, identity)

SpecFI == FIInit /\ [][FINext]_vars

(***************************************************************************)
(* Specification of linear called directly, at the root scope.             *)
(***************************************************************************)
\* The rows of the test tensors with k features: 1, -1, 1, ... and its
\* negation.
Alt(k) == [j \in 1..k |-> IF j % 2 = 1 THEN 1 ELSE -1]

Neg(row) == [j \in 1..Len(row) |-> 0 - row[j]]

GoodTensors ==
    {Tensor(<<1, k>>, Alt(k)) : k \in Dims} \cup {Tensor(<<2, 1>>, Alt(1))}

BadTensors ==
    {Tensor(<<2>>, Opaque), Tensor(<<1, 1, 1>>, Opaque),
     Tensor(<<1, None>>, Opaque), Tensor(<<1, 0>>, Opaque)}

LinearScopes == {<<>>, <<"A">>}

LinearInit ==
    /\ store = EmptyStore
    /\ users = <<>>
    /\ rng = 0
    /\ cell = NoCell
    /\ calls = 0
    /\ last = NoCall

LinearCall(args, output_size, bias, bias_start, scope, identity, reuse) ==
    /\ calls < MaxCalls
    /\ \E out \in {linear(args, output_size, bias, bias_start, scope, identity,
                          <<>>, reuse, store, rng)} :
        /\ calls' = calls + 1
        /\ store' = out.store
        /\ rng' = out.rng
        /\ last' = [NoCall EXCEPT
                      !.op = "linear", !.ok = out.ok, !.err = out.err,
                      !.stage = out.stage, !.n_out = output_size,
                      !.identity = identity, !.args = args, !.bias = bias,
                      !.bias_start = bias_start, !.path = LinearScope(scope),
                      !.reuse = reuse,
                      !.created = Registered(out.store) \ Registered(store),
                      !.obtained = out.obtained, !.res = out.res]
        /\ UNCHANGED <<users, cell>>

\* Calls whose arguments pass the shape validation.
LinearGood ==
    \E args \in SeqsUpTo(GoodTensors, 2) \ {<<>>}, output_size \in Dims,
       bias \in BOOLEAN, scope \in LinearScopes, identity \in -1..1,
       reuse \in BOOLEAN :
        LinearCall(args, output_size, bias, 1, scope, identity, reuse)

\* Calls with no argument or an offending one.
LinearBad ==
    \E args \in SeqsUpTo(GoodTensors \cup BadTensors, 2) \ SeqsUpTo(GoodTensors, 2),
       reuse \in BOOLEAN :
        LinearCall(args, 1, TRUE, 0, <<>>, -1, reuse)

LinearEmpty == LinearCall(<<>>, 1, TRUE, 0, <<>>, -1, FALSE)

LinearNext == LinearGood \/ LinearBad \/ LinearEmpty

SpecLinear == LinearInit /\ [][LinearNext]_vars

(***************************************************************************)
(* Specification of the cells and of RNN: the cells are constructed with   *)
(* some sizes, then stepped directly at the root scope or through RNN.     *)
(***************************************************************************)
InputTensors ==
    UNION {{Tensor(<<1, k>>, Zeros(k)), Tensor(<<1, k>>, Alt(k))} : k \in Dims}
        \cup {Tensor(<<2, 1>>, Alt(1)), Tensor(<<1, None>>, Opaque)}

StateTensors ==
    UNION {{Tensor(<<1, k>>, Alt(k)), Tensor(<<1, k>>, Neg(Alt(k)))} : k \in Dims}
        \cup {Tensor(<<1, 1, 1>>, Opaque)}

CellInit ==
    /\ store = EmptyStore
    /\ users = <<>>
    /\ rng = 0
    /\ cell \in {steph_RNNCell(i, s, o) : i \in Dims, s \in Dims, o \in Dims}
    /\ calls = 0
    /\ last = NoCall

CellCall(kind, out, inputs, state, reuse) ==
    /\ calls' = calls + 1
    /\ store' = out.store
    /\ rng' = out.rng
    /\ users' = out.users
    /\ last' = [NoCall EXCEPT
                  !.op = kind, !.ok = out.ok, !.err = out.err,
                  !.args = <<inputs, state>>, !.reuse = reuse,
                  !.created = Registered(out.store) \ Registered(store),
                  !.res = out.output, !.new_state = out.new_state,
                  !.trans = out.trans, !.outp = out.outp]
    /\ UNCHANGED cell

tanhRNNCall ==
    /\ calls < MaxCalls
    /\ \E inputs \in InputTensors, state \in StateTensors, reuse \in BOOLEAN :
        \E out \in {tanhRNNCell(cell, inputs, state, <<>>, reuse, store, rng,
                                users)} :
            CellCall("tanhRNN", out, inputs, state, reuse)

IRNNCall ==
    /\ calls < MaxCalls
    /\ \E inputs \in InputTensors, state \in StateTensors, reuse \in BOOLEAN :
        \E out \in {IRNNCell(cell, inputs, state, <<>>, reuse, store, rng,
                             users)} :
            CellCall("IRNN", out, inputs, state, reuse)

\* The input a step is given when only the kind of cell matters.
TestInput(c) == Tensor(<<1, c.input_size>>, Alt(c.input_size))

StubCall ==
    /\ calls < MaxCalls
    /\ \E kind \in {"LSTM", "complex_RNN", "uRNN"} :
        \E out \in {StubCell(cell, TestInput(cell), ZeroState(cell), <<>>,
                             FALSE, store, rng, users)} :
            CellCall(kind, out, TestInput(cell), ZeroState(cell), FALSE)

Current == [store |-> store, rng |-> rng, users |-> users]

RNNCall(cell_type, steps, sequence_length, reuse) ==
    /\ calls < MaxCalls
    /\ \E x \in {Tensor(<<1, steps, cell.input_size>>, Alt(cell.input_size))} :
        \E out \in {RNN(cell_type, x, cell.input_size, cell.state_size,
                        cell.output_size, sequence_length, reuse, Current)} :
            /\ calls' = calls + 1
            /\ store' = out.store
            /\ rng' = out.rng
            /\ users' = out.users
            /\ last' = [NoCall EXCEPT
                          !.op = "RNN", !.ok = out.ok, !.err = out.err,
                          !.stage = out.stage, !.cell_type = cell_type,
                          !.args = <<x>>, !.reuse = reuse, !.steps = out.steps,
                          !.created = out.created, !.new_state = out.state]
            /\ UNCHANGED cell

RNNKnown ==
    \E cell_type \in {"tanhRNN", "IRNN"}, steps \in 1..MaxSeq,
       sequence_length \in 1..MaxSeq, reuse \in BOOLEAN :
        RNNCall(cell_type, steps, sequence_length, reuse)

RNNUnknown ==
    \E cell_type \in {"LSTM", "GRU"} : RNNCall(cell_type, 1, 1, FALSE)

CellNext == tanhRNNCall \/ IRNNCall \/ StubCall \/ RNNKnown \/ RNNUnknown

Spec == CellInit /\ [][CellNext]_vars

(***************************************************************************)
(* Properties.                                                             *)
(***************************************************************************)
IsFI == last.op = "fixed_initializer"
IsLinear == last.op = "linear"
IsStep == last.op \in {"tanhRNN", "IRNN"}

\* Whether identity names a block of the list.
NamesBlock(identity, n_in_list) == identity >= 0 /\ identity < Len(n_in_list)

Prefix(s, k) == SumSeq(SubSeq(s, 1, k))

\* C2: whenever the identity index names a block whose n_in differs from
\* n_out, fixed_initializer raises and returns no matrix -- also when that
\* n_in is 1.
C2_IdentityMismatchRaises ==
    (/\ IsFI
     /\ NamesBlock(last.identity, last.n_in_list)
     /\ last.n_in_list[last.identity + 1] # last.n_out)
        => (~last.ok /\ last.matrix = NoMatrix)

\* C3: a matrix fixed_initializer returns has sum(n_in_list) rows of n_out
\* columns; block k was written to rows [sum of the k-1 sizes before it,
\* sum of the first k sizes), in list order; every row lies in exactly one
\* block and holds that block's values; the marker ends at sum(n_in_list).
\* A call whose identity index names no block always returns.
C3_BlocksPartitionRows ==
    IsFI =>
        /\ ~NamesBlock(last.identity, last.n_in_list) => last.ok
        /\ last.ok =>
            /\ Len(last.matrix) = SumSeq(last.n_in_list)
            /\ \A r \in 1..Len(last.matrix) :
                /\ Len(last.matrix[r]) = last.n_out
                /\ Cardinality({k \in 1..Len(last.slices) :
                       last.slices[k][1] < r /\ r <= last.slices[k][2]}) = 1
            /\ Len(last.slices) = Len(last.n_in_list)
            /\ \A k \in 1..Len(last.n_in_list) :
                /\ last.slices[k] = <<Prefix(last.n_in_list, k - 1),
                                      Prefix(last.n_in_list, k)>>
                /\ \A r \in (Prefix(last.n_in_list, k - 1) + 1)
                              ..Prefix(last.n_in_list, k) :
                     \A c \in 1..last.n_out :
                        IF k - 1 = last.identity
                        THEN last.matrix[r][c] \in {0, 1}
                        ELSE /\ last.matrix[r][c] # Uninit
                             /\ last.matrix[r][c] * last.matrix[r][c]
                                  * (last.n_in_list[k] + last.n_out)
                                    <= ScaleNumerator
            /\ last.row_marker = SumSeq(last.n_in_list)

C3_Witness ==
    /\ IsFI /\ last.ok
    /\ Len(last.n_in_list) = 2
    /\ last.n_in_list[1] # last.n_in_list[2]
    /\ last.identity = -1

\* What the spec asks of every element of args.
Offending(t) == Len(t.shape) # 2 \/ t.shape[2] = None \/ t.shape[2] = 0

\* C4: linear raises the shape error of its argument check whenever some
\* element of args, at any position, is not rank-2 or has an unknown or zero
\* second dimension; it returns only when no element is.
C4_OffendingArgumentRaises ==
    IsLinear =>
        /\ (\E i \in 1..Len(last.args) : Offending(last.args[i]))
              => (~last.ok /\ last.err = "ValueError" /\ last.stage = "validate")
        /\ last.ok => \A i \in 1..Len(last.args) : ~Offending(last.args[i])

C4_Witness ==
    /\ IsLinear /\ ~last.ok /\ last.stage = "validate"
    /\ Len(last.args) = 2
    /\ ~Offending(last.args[1])
    /\ Offending(last.args[2])

\* The product linear returns for args under the matrix now registered.
Product(args, matrix) ==
    MatMul(IF Len(args) = 1 THEN args[1] ELSE Concat(args).t, matrix).t

\* C5: a linear call with bias false neither creates nor obtains "Bias" in
\* its scope, and what it returns is the matrix product alone.
C5_NoBiasWhenFlagFalse ==
    (IsLinear /\ ~last.bias) =>
        /\ Append(last.path, "Bias") \notin last.created
        /\ Append(last.path, "Bias") \notin last.obtained
        /\ last.ok => last.res = Product(last.args, store[Append(last.path, "Matrix")])

C5_Witness ==
    /\ IsLinear /\ ~last.bias /\ last.ok
    /\ Len(last.args) = 2
    /\ Append(last.path, "Bias") \in Registered(store)

\* C10 as stated: a linear call that fails leaves the registered parameters
\* as they were.
C10_FailedCallRegistersNothing ==
    (IsLinear /\ ~last.ok) => last.created = {}

\* C10 amended: a linear call that fails before or while "Matrix" is
\* obtained (the argument check, fixed_initializer, get_variable) leaves the
\* registered parameters as they were, and no failing call registers "Bias";
\* a call that fails later can leave the "Matrix" it created.
C10_EarlyFailureRegistersNothing ==
    (IsLinear /\ ~last.ok) =>
        /\ last.stage \in {"assert", "validate", "initializer", "Matrix"}
              => last.created = {}
        /\ last.created \subseteq {Append(last.path, "Matrix")}

C10_Witness ==
    /\ IsLinear /\ ~last.ok
    /\ last.stage = "initializer"
    /\ last.identity >= 0
    /\ last.created = {}

ShapeStages == {"assert", "validate", "initializer", "concat", "matmul", "add"}

IRNNMatrix == IRNNScope \o TransitionScope \o <<"Matrix">>
IRNNBias == IRNNScope \o TransitionScope \o <<"Bias">>

FreshIRNNStep ==
    /\ last.op = "IRNN" /\ last.ok
    /\ IRNNMatrix \in last.trans.created
    /\ last.args[1].shape[2] = cell.input_size
    /\ last.args[2].shape[2] = cell.state_size

C6_IdentityStateBlock ==
    FreshIRNNStep =>
        /\ SubSeq(store[IRNNMatrix], cell.input_size + 1,
                  cell.input_size + cell.state_size) = Identity(cell.state_size)
        /\ store[IRNNBias] = Zeros(cell.state_size)
        /\ last.args[1].val = Zeros(cell.input_size)
              => last.new_state.val = Relu(last.args[2]).val

C6_Witness ==
    /\ FreshIRNNStep
    /\ last.args[1].val = Zeros(cell.input_size)
    /\ cell.state_size = 2
    /\ last.args[2].val = <<-1, 1>>
    /\ last.new_state.val = <<0, 1>>

\* C7: a step of LSTMCell, complex_RNNCell or uRNN raises
\* NotImplementedError, whatever was called before; it returns nothing and
\* registers nothing.
C7_StubsRaise ==
    last.op \in {"LSTM", "complex_RNN", "uRNN"} =>
        /\ ~last.ok
        /\ last.err = "NotImplementedError"
        /\ last.res = NoTensor /\ last.new_state = NoTensor
        /\ last.created = {}

C7_Witness ==
    /\ last.op \in {"LSTM", "complex_RNN", "uRNN"}
    /\ ~last.ok
    /\ calls = 2
    /\ Registered(store) # {}

\* C8: RNN given a cell_type other than 'tanhRNN' and 'IRNN' raises
\* NotImplementedError; no cell is stepped and nothing is registered.
C8_UnknownCellTypeRaises ==
    (last.op = "RNN" /\ last.cell_type \notin {"tanhRNN", "IRNN"}) =>
        /\ ~last.ok
        /\ last.err = "NotImplementedError"
        /\ last.steps = 0
        /\ last.created = {}

C8_Witness ==
    /\ last.op = "RNN" /\ last.cell_type = "GRU"
    /\ ~last.ok /\ last.stage = "dispatch"
    /\ calls = 2
    /\ Registered(store) # {}

\* C9: no registered parameter is ever obtained by two different linear
\* maps: not by the transition and the output map of a cell, and not by
\* tanhRNNCell and IRNNCell; within a step the two maps obtain disjoint
\* names.
C9_ScopesNeverCollide ==
    /\ \A n \in DOMAIN users : Cardinality(users[n]) <= 1
    /\ last.trans.obtained \cap last.outp.obtained = {}

C9_Witness ==
    /\ IsStep /\ last.ok
    /\ \E n \in DOMAIN users : users[n] = {<<"tanhRNN", "Transition">>}
    /\ \E n \in DOMAIN users : users[n] = {<<"tanhRNN", "Output">>}
    /\ \E n \in DOMAIN users : users[n] = {<<"IRNN", "Transition">>}
    /\ \E n \in DOMAIN users : users[n] = {<<"IRNN", "Output">>}

====
